---------------------------- MODULE Spec2Model ----------------------------
(***************************************************************************)
(* A model of libnop's BoundedReader (nop/utility/bounded_reader.h),       *)
(* Variant (nop/types/variant.h), LogicalBuffer encoding                   *)
(* (nop/base/logical_buffer.h) and customer service example                *)
(* (examples/interface.cpp).                                               *)
(***************************************************************************)
EXTENDS Integers, Sequences, FiniteSets, TLC

(***************************************************************************)
(* Bounds.                                                                 *)
(***************************************************************************)
\* Largest value of std::size_t in the model; arithmetic on std::size_t is
\* taken modulo SizeMax + 1.
SizeMax == 7
\* Largest capacity a BoundedReader is constructed with.
MaxCap == 4
\* Largest number of bytes the wrapped reader holds.
MaxInner == 8
\* Number of element types of the Variant, sizeof...(Types).
NumTypes == 3
\* Largest value an element holds.
MaxVal == 1
\* Length of the array a LogicalBuffer wraps.
Length == 2
\* Largest value of unsigned int in the model; unsigned int is narrower
\* than std::size_t, and the byte counts of the model, all below 2^64, are
\* exact on std::size_t and std::uint64_t.
UIntMax == 7
\* A length a peer declares that no buffer of the model holds.
BigLength == 200
\* Number of calls the client makes.
MaxRequests == 3
\* Number of distinct customer identities (name and address).
NumNames == 2

SizeMod == SizeMax + 1
SizeT == 0 .. SizeMax

Min(a, b) == IF a < b THEN a ELSE b

(***************************************************************************)
(* State.                                                                  *)
(*   br       the BoundedReader: its fields size_ and index_               *)
(*   reader   the wrapped reader *reader_: its position and its length     *)
(*   brLast   the last call on the BoundedReader: operation, requested     *)
(*            bytes, returned status, whether the wrapped reader was       *)
(*            called and what its call returned, index_ / position before  *)
(*            the call, and whether an earlier call returned NoBuffer      *)
(*   innerFailed  whether a call on the wrapped reader has ever failed     *)
(*   variant  the Variant: its fields index_ and value_; the union value_   *)
(*            is the set of its elements that are alive and the value its  *)
(*            storage holds                                                *)
(*   vLast    the last operation on the Variant: its name, the Variant     *)
(*            before the operation, the arguments, the other Variant, and  *)
(*            the destructor / constructor / assignment / visitor calls    *)
(*            the operation made, in order                                 *)
(*   lbuf     the LogicalBuffer that is read into: element kind, array and *)
(*            count                                                        *)
(*   stream   the byte stream between writer and reader: its bytes, the    *)
(*            reader's position, who produced it, the status of the write  *)
(*            that produced it and the buffer that was written             *)
(*   lbLast   the last LogicalBuffer operation: its name, returned status, *)
(*            the element writes / reads it made, the value Size gave and  *)
(*            the target buffer before it                                  *)
(*   service  the CustomerService: customers_, customer_id_counter_, quit_ *)
(*            and the position of its thread in HandleMessages             *)
(*   client   the CustomerClient's thread: whether it waits in Invoke, its *)
(*            last request and the value its last call returned, the       *)
(*            numbers of requests sent and responses read, and the number  *)
(*            of the request the last response was computed from           *)
(*   pipes    the messages in the client-to-service and the                *)
(*            service-to-client pipe                                       *)
(*   rpcLog   the numbers of the requests the service handled, in order,   *)
(*            the value its last handler returned, and for each id the     *)
(*            customer it was added with while no Remove or Update of the  *)
(*            id was handled since                                         *)
(***************************************************************************)
VARIABLES br, reader, brLast, innerFailed, variant, vLast, lbuf, stream, lbLast,
          service, client, pipes, rpcLog

vars == <<br, reader, brLast, innerFailed, variant, vLast, lbuf, stream, lbLast,
          service, client, pipes, rpcLog>>

\* Status<void> error kinds. ErrorStatus(ENOBUFS) is NoBuffer.
InnerErrors == {"NoBuffer", "IoError"}

(***************************************************************************)
(* The wrapped Reader.  A call that consumes n bytes succeeds only when n  *)
(* bytes remain and then advances the position by exactly n; a failing     *)
(* call returns an error kind and may have consumed part of the request.   *)
(* Each operator gives the set of outcomes [st, r] of one call.            *)
(***************************************************************************)
ReaderConsume(r, n) ==
  {[st |-> "Ok", r |-> [r EXCEPT !.pos = @ + n]] : x \in {0} \cap (IF r.pos + n <= r.len THEN {0} ELSE {})}
  \cup {[st |-> e, r |-> [r EXCEPT !.pos = p]] :
          e \in InnerErrors, p \in r.pos .. Min(r.pos + n, r.len)}

ReaderEnsure(r, n) ==
  {[st |-> "Ok", r |-> r] : x \in {0} \cap (IF r.pos + n <= r.len THEN {0} ELSE {})}
  \cup {[st |-> e, r |-> r] : e \in InnerErrors}

ReaderGetHandle(r) ==
  {[st |-> "Ok", r |-> r]} \cup {[st |-> e, r |-> r] : e \in InnerErrors}

(***************************************************************************)
(* BoundedReader.  Each operator gives the set of outcomes                 *)
(* [st, b, r, inner] of one call on BoundedReader b over reader r:         *)
(* returned status, the BoundedReader and the reader afterwards, whether   *)
(* reader_ was called and the status its call returned ("None" when it was *)
(* not called).                                                            *)
(***************************************************************************)
\* size_ - index_ on std::size_t
Remaining(b) == (b.size_ - b.index_) % SizeMod

\* a refusal that uses up the budget
NoBuffer_Exhausts(b, r) ==
  [st |-> "NoBuffer", b |-> [b EXCEPT !.index_ = b.size_], r |-> r, inner |-> FALSE,
   ist |-> "None"]

NoBuffer(b, r) == [st |-> "NoBuffer", b |-> b, r |-> r, inner |-> FALSE, ist |-> "None"]

\* a wrapped call whose error is replaced and whose bytes are counted even
\* when it failed
Delegated_CountsFailure(b, o, n) ==
  [st |-> IF o.st = "Ok" THEN "Ok" ELSE "NoBuffer",
   b |-> [b EXCEPT !.index_ = (@ + n) % SizeMod],
   r |-> o.r, inner |-> TRUE, ist |-> o.st]

\* status of the wrapped call o; index_ += n only when it succeeded
Delegated(b, o, n) ==
  [st |-> o.st,
   b |-> IF o.st = "Ok" THEN [b EXCEPT !.index_ = (@ + n) % SizeMod] ELSE b,
   r |-> o.r, inner |-> TRUE, ist |-> o.st]

\* Ensure that consumes what it was asked to ensure
Ensure_Consumes(b, r, size) ==
  IF Remaining(b) < size
    THEN {NoBuffer(b, r)}
    ELSE {Delegated(b, o, size) : o \in ReaderConsume(r, size)}

Ensure(b, r, size) ==
  IF Remaining(b) < size
    THEN {NoBuffer(b, r)}
    ELSE {[st |-> o.st, b |-> b, r |-> o.r, inner |-> TRUE, ist |-> o.st] : o \in ReaderEnsure(r, size)}

\* Read with the bound test off by one
Read_OffByOne(b, r) ==
  IF b.index_ <= b.size_
    THEN {Delegated(b, o, 1) : o \in ReaderConsume(r, 1)}
    ELSE {NoBuffer(b, r)}

Read(b, r) ==
  IF b.index_ < b.size_
    THEN {Delegated(b, o, 1) : o \in ReaderConsume(r, 1)}
    ELSE {NoBuffer(b, r)}

\* ReadRaw that tests the bound only after the wrapped reader was called
ReadRaw_CheckAfter(b, r, count, elemSize) ==
  LET length_bytes == (count * elemSize) % SizeMod IN
  {IF length_bytes > Remaining(b)
     THEN [st |-> "NoBuffer", b |-> b, r |-> o.r, inner |-> TRUE, ist |-> o.st]
     ELSE Delegated(b, o, length_bytes) : o \in ReaderConsume(r, count * elemSize)}

\* length_bytes = std::distance(begin, end) * sizeof(value_type)
ReadRaw(b, r, count, elemSize) ==
  LET length_bytes == (count * elemSize) % SizeMod IN
  IF length_bytes > Remaining(b)
    THEN {NoBuffer(b, r)}
    ELSE {Delegated(b, o, length_bytes) : o \in ReaderConsume(r, count * elemSize)}

\* Skip without the bound test
Skip_Unchecked(b, r, padding_bytes) ==
  {Delegated(b, o, padding_bytes) : o \in ReaderConsume(r, padding_bytes)}

Skip(b, r, padding_bytes) ==
  IF padding_bytes > Remaining(b)
    THEN {NoBuffer(b, r)}
    ELSE {Delegated(b, o, padding_bytes) : o \in ReaderConsume(r, padding_bytes)}

\* ReadPadding that skips size_ bytes instead of size_ - index_
ReadPadding_WholeSize(b, r) ==
  LET padding_bytes == b.size_ IN
  {Delegated(b, o, padding_bytes) : o \in ReaderConsume(r, padding_bytes)}

ReadPadding(b, r) ==
  LET padding_bytes == Remaining(b) IN
  {Delegated(b, o, padding_bytes) : o \in ReaderConsume(r, padding_bytes)}

GetHandle(b, r) ==
  {[st |-> o.st, b |-> b, r |-> o.r, inner |-> TRUE, ist |-> o.st] : o \in ReaderGetHandle(r)}

(***************************************************************************)
(* Actions: one call on the BoundedReader.                                 *)
(***************************************************************************)
\* sizes of the element types ReadRaw is called with
ElemSizes == {1, 2}

BrCall(op, n, o) ==
  /\ br' = o.b
  /\ reader' = o.r
  /\ brLast' = [op |-> op, n |-> n, st |-> o.st, inner |-> o.inner, ist |-> o.ist,
                preIndex |-> br.index_, prePos |-> reader.pos,
                afterNoBuffer |-> (brLast.afterNoBuffer \/ brLast.st = "NoBuffer")]
  /\ innerFailed' = (innerFailed \/ (o.inner /\ o.st # "Ok"))
  /\ UNCHANGED <<variant, vLast, lbuf, stream, lbLast, service, client, pipes, rpcLog>>

DoEnsure == \E n \in SizeT : \E o \in Ensure(br, reader, n) : BrCall("Ensure", n, o)

DoRead == \E o \in Read(br, reader) : BrCall("Read", 1, o)

\* an iterator range of count elements of elemSize bytes fits the address
\* space: count * elemSize does not exceed the largest std::size_t
DoReadRaw ==
  \E count \in SizeT, elemSize \in ElemSizes :
    /\ count * elemSize <= SizeMax
    /\ \E o \in ReadRaw(br, reader, count, elemSize) :
         BrCall("ReadRaw", count * elemSize, o)

DoSkip == \E n \in SizeT : \E o \in Skip(br, reader, n) : BrCall("Skip", n, o)

DoReadPadding ==
  \E o \in ReadPadding(br, reader) : BrCall("ReadPadding", Remaining(br), o)

DoGetHandle == \E o \in GetHandle(br, reader) : BrCall("GetHandle", 0, o)

\* BoundedReader(Reader* reader, std::size_t size): index_ is 0
BrInit ==
  /\ \E c \in 0 .. MaxCap : br = [size_ |-> c, index_ |-> 0]
  /\ \E len \in 0 .. MaxInner : reader = [pos |-> 0, len |-> len]
  /\ brLast = [op |-> "none", n |-> 0, st |-> "Ok", inner |-> FALSE, ist |-> "None",
               preIndex |-> 0, prePos |-> 0, afterNoBuffer |-> FALSE]
  /\ innerFailed = FALSE

BrNext ==
  \/ DoEnsure
  \/ DoRead
  \/ DoReadRaw
  \/ DoSkip
  \/ DoReadPadding
  \/ DoGetHandle



(***************************************************************************)
(* Variant<Types...>.  The element types are numbered 0 .. NumTypes - 1 in *)
(* list order.  A value given to a Variant has a type U of SrcTypes: an    *)
(* element type, or one of two types outside the list.                     *)
(***************************************************************************)
kEmptyIndex == -1

Alternatives == 0 .. NumTypes - 1
SrcTypes == 0 .. NumTypes + 1
Vals == 0 .. MaxVal
\* the storage of a union none of whose elements is alive: its content is
\* indeterminate, and a read of it may give any value (ElementRead)
NoVal == MaxVal + 1
Args == [ty : SrcTypes, x : Vals]

\* HasType<T>: T is an element of Types...
HasType(U) == U \in Alternatives

\* The element types constructible from a value of type U.  An element type
\* converts to itself and to the element before it in the list; the first
\* type outside the list converts to every element but the first; the
\* second type outside the list converts to none.
ConvertibleTo(U) ==
  IF U \in Alternatives THEN {T \in Alternatives : T = U \/ T = U - 1}
  ELSE IF U = NumTypes THEN {T \in Alternatives : T >= 1}
  ELSE {}

FirstConvertible(U) ==
  CHOOSE T \in ConvertibleTo(U) : \A S \in ConvertibleTo(U) : T <= S

\* The values an element of type T may hold after construction or
\* assignment from value x of type U: x itself when U is T, and whatever
\* the conversion yields otherwise.
Converted(U, T, x) == IF U = T THEN {x} ELSE Vals

Ev(k, i, live) == [k |-> k, i |-> i, live |-> live]

EmptyUnion == [alive |-> {}, held |-> NoVal]

(***************************************************************************)
(* detail::Union<Types...>.  Every call on an element records whether the  *)
(* element was alive.  A destructor or an assignment on an element that is *)
(* not alive is undefined behaviour: the storage may hold anything after.  *)
(***************************************************************************)
UnionDestruct(u, idx) ==
  IF idx \in Alternatives
    THEN [u |-> [alive |-> u.alive \ {idx}, held |-> NoVal],
          ev |-> <<Ev("dtor", idx, idx \in u.alive)>>]
    ELSE [u |-> u, ev |-> <<>>]

UnionConstructTag(u, T, a) ==
  {[u |-> [alive |-> u.alive \cup {T}, held |-> h],
    ev |-> <<Ev("ctor", T, T \in u.alive)>>, ret |-> T] :
     h \in Converted(a.ty, T, a.x)}

UnionConstruct(u, a) == UnionConstructTag(u, FirstConvertible(a.ty), a)

UnionAssignInPlace(u, T, a) ==
  {[u |-> [u EXCEPT !.held = h], ev |-> <<Ev("assign", T, T \in u.alive)>>,
    ret |-> TRUE] :
     h \in IF T \in u.alive THEN Converted(a.ty, T, a.x) ELSE {NoVal}}

UnionAssignTag(u, T, idx, a) ==
  IF idx = T THEN UnionAssignInPlace(u, T, a)
  ELSE {[u |-> u, ev |-> <<>>, ret |-> FALSE]}

UnionAssign(u, idx, a) == UnionAssignTag(u, FirstConvertible(a.ty), idx, a)

UnionBecome(u, target_index, a) ==
  IF target_index \in Alternatives /\ target_index \in ConvertibleTo(a.ty)
    THEN UnionConstructTag(u, target_index, a)
    ELSE {[u |-> u, ev |-> <<>>, ret |-> kEmptyIndex]}

\* Union::Visit(index, op): op is called on element index, or on
\* EmptyVariant (slot kEmptyIndex) when index names no element.
UnionVisit(u, idx) ==
  LET slot == IF idx \in Alternatives THEN idx ELSE kEmptyIndex IN
  [slot |-> slot, ev |-> <<Ev("visit", slot, slot \in u.alive)>>]

\* The values a visitor may read from the element op is called on.
ElementRead(u, slot) == IF slot \in u.alive THEN {u.held} ELSE Vals

(***************************************************************************)
(* Variant: private members.  Each operator gives the outcome [v, ev] (or  *)
(* the set of outcomes) of one call on Variant v: the Variant afterwards   *)
(* and the calls made on its elements.                                     *)
(***************************************************************************)
Destruct(v) ==
  LET d == UnionDestruct(v.value_, v.index_) IN
  [v |-> [v EXCEPT !.value_ = d.u], ev |-> d.ev]

ConstructTagged(v, T, a) ==
  {[v |-> [index_ |-> c.ret, value_ |-> c.u], ev |-> c.ev] :
     c \in UnionConstructTag(v.value_, T, a)}

Construct(v, a) ==
  {[v |-> [index_ |-> c.ret, value_ |-> c.u], ev |-> c.ev] :
     c \in UnionConstruct(v.value_, a)}

AssignTagged(v, T, a) ==
  UNION {IF r.ret
           THEN {[v |-> [v EXCEPT !.value_ = r.u], ev |-> r.ev]}
           ELSE LET d == Destruct(v) IN
                {[v |-> c.v, ev |-> d.ev \o c.ev] : c \in ConstructTagged(d.v, T, a)} :
         r \in UnionAssignTag(v.value_, T, v.index_, a)}

Assign(v, a) ==
  UNION {IF r.ret
           THEN {[v |-> [v EXCEPT !.value_ = r.u], ev |-> r.ev]}
           ELSE LET d == Destruct(v) IN
                {[v |-> c.v, ev |-> d.ev \o c.ev] : c \in Construct(d.v, a)} :
         r \in UnionAssign(v.value_, v.index_, a)}

AssignEmpty(v) == {Destruct(v)}

(***************************************************************************)
(* Variant: public members.                                                *)
(***************************************************************************)
index(v) == v.index_

empty(v) == index(v) = kEmptyIndex

index_of(T) == T

is(v, T) == index(v) = index_of(T)

\* get<T>(): TRUE when it returns a pointer to the element, FALSE when it
\* returns nullptr
get(v, T) == is(v, T)

\* Variant()
DefaultCtor == [v |-> [index_ |-> kEmptyIndex, value_ |-> EmptyUnion], ev |-> <<>>]

SelectConstructor(U) == IF HasType(U) THEN "Direct" ELSE "Convert"

\* Variant(T&& value)
ValueCtor(a) ==
  LET c == IF SelectConstructor(a.ty) = "Direct"
             THEN UnionConstructTag(EmptyUnion, a.ty, a)
             ELSE UnionConstruct(EmptyUnion, a) IN
  {[v |-> [index_ |-> o.ret, value_ |-> o.u], ev |-> o.ev] : o \in c}

\* Visit that passes kEmptyIndex instead of index_
Visit_AlwaysEmpty(v) == UnionVisit(v.value_, kEmptyIndex)

Visit(v) == UnionVisit(v.value_, v.index_)

\* IfAnyOf<ValidTypes...>::CallOp that calls op on every element type
CallOp_AnyElement(ValidTypes, slot, live) ==
  IF slot \in Alternatives
    THEN [ret |-> TRUE, ev |-> <<Ev("op", slot, live)>>]
    ELSE [ret |-> FALSE, ev |-> <<>>]

\* IfAnyOf<ValidTypes...>::CallOp<Op>::operator()(U&&): for U one of
\* ValidTypes it calls op on the value and returns true; for every other U,
\* EmptyVariant included, it returns false.  ValidTypes is the set of the
\* element numbers of the listed types.
CallOp(ValidTypes, slot, live) ==
  IF slot \in ValidTypes
    THEN [ret |-> TRUE, ev |-> <<Ev("op", slot, live)>>]
    ELSE [ret |-> FALSE, ev |-> <<>>]

\* IfAnyOf<ValidTypes...>::Call(&variant, op): variant->Visit(CallOp{op})
IfAnyOfCall(v, ValidTypes) ==
  LET vis == Visit(v) IN CallOp(ValidTypes, vis.slot, vis.ev[1].live)

\* Variant(const Variant<OtherTypes...>& other)
CopyCtor(other) ==
  LET vis == Visit(other) IN
  IF vis.slot = kEmptyIndex
    THEN {[v |-> DefaultCtor.v, ev |-> vis.ev]}
    ELSE {[v |-> c.v, ev |-> vis.ev \o c.ev] :
            c \in UNION {Construct(DefaultCtor.v, [ty |-> vis.slot, x |-> x]) :
                           x \in ElementRead(other.value_, vis.slot)}}

\* operator=(T&& value), for T an element of Types and for T convertible
OpAssignValue(v, a) ==
  IF HasType(a.ty) THEN AssignTagged(v, a.ty, a) ELSE Assign(v, a)

\* operator=(EmptyVariant)
OpAssignEmpty(v) == AssignEmpty(v)

\* operator=(const Variant<OtherTypes...>& other)
OpAssignVariant(v, other) ==
  LET vis == Visit(other) IN
  IF vis.slot = kEmptyIndex
    THEN {[v |-> o.v, ev |-> vis.ev \o o.ev] : o \in OpAssignEmpty(v)}
    ELSE {[v |-> o.v, ev |-> vis.ev \o o.ev] :
            o \in UNION {OpAssignValue(v, [ty |-> vis.slot, x |-> x]) :
                           x \in ElementRead(other.value_, vis.slot)}}

\* Become without the test of the active index
Become_Always(v, target_index, a) ==
  LET d == Destruct(v) IN
  {[v |-> [index_ |-> IF b.ret # kEmptyIndex THEN target_index ELSE kEmptyIndex,
           value_ |-> b.u],
    ev |-> d.ev \o b.ev] : b \in UnionBecome(d.v.value_, target_index, a)}

Become(v, target_index, a) ==
  IF target_index # index(v)
    THEN LET d == Destruct(v) IN
         {[v |-> [index_ |-> IF b.ret # kEmptyIndex THEN target_index ELSE kEmptyIndex,
                  value_ |-> b.u],
           ev |-> d.ev \o b.ev] : b \in UnionBecome(d.v.value_, target_index, a)}
    ELSE {[v |-> v, ev |-> <<>>]}

(***************************************************************************)
(* Actions: one operation on the Variant.  An object constructed in its    *)
(* place replaces the object there, whose destructor runs first.  The *)
(* other Variant of a copy construction or an assignment is an object      *)
(* some constructor built, on which operator=(EmptyVariant) may have been  *)
(* called; the operation takes it by const reference.                      *)
(***************************************************************************)
NoArg == [ty |-> 0, x |-> 0]
\* target indices given to Become: every element, the empty index, and one
\* index below and one above the valid ones
TargetIndices == -2 .. NumTypes

\* a value of a type no element can be constructed from is rejected at
\* compile time (EnableIfAssignable)
ValueArgs == {a \in Args : ConvertibleTo(a.ty) # {}}

Constructed == {DefaultCtor.v} \cup UNION {{c.v : c \in ValueCtor(a)} : a \in ValueArgs}

Others == Constructed \cup UNION {{o.v : o \in OpAssignEmpty(w)} : w \in Constructed}

VCallRet(op, o, a, ti, src, valid, ret) ==
  /\ variant' = o.v
  /\ vLast' = [op |-> op, pre |-> variant, ev |-> o.ev, a |-> a, ti |-> ti, src |-> src,
               valid |-> valid, ret |-> ret]
  /\ UNCHANGED <<br, reader, brLast, innerFailed, lbuf, stream, lbLast,
                 service, client, pipes, rpcLog>>

VCall(op, o, a, ti, src) == VCallRet(op, o, a, ti, src, {}, FALSE)

\* ~Variant() followed by the constructor outcome c
Replaced(w, c) == [v |-> c.v, ev |-> Destruct(w).ev \o c.ev]

NewDefault ==
  \E o \in {Replaced(variant, DefaultCtor)} :
    VCall("NewDefault", o, NoArg, kEmptyIndex, variant)

NewFromValue ==
  \E a \in ValueArgs : \E o \in {Replaced(variant, c) : c \in ValueCtor(a)} :
    VCall("NewFromValue", o, a, kEmptyIndex, variant)

NewFromVariant ==
  \E other \in Others : \E o \in {Replaced(variant, c) : c \in CopyCtor(other)} :
    VCall("NewFromVariant", o, NoArg, kEmptyIndex, other)

DoAssignValue ==
  \E a \in ValueArgs : \E o \in OpAssignValue(variant, a) :
    VCall("AssignValue", o, a, kEmptyIndex, variant)

DoAssignEmpty ==
  \E o \in OpAssignEmpty(variant) : VCall("AssignEmpty", o, NoArg, kEmptyIndex, variant)

DoAssignVariant ==
  \E other \in Others : \E o \in OpAssignVariant(variant, other) :
    VCall("AssignVariant", o, NoArg, kEmptyIndex, other)

DoBecome ==
  \E ti \in TargetIndices, a \in Args : \E o \in Become(variant, ti, a) :
    VCall("Become", o, a, ti, variant)

DoVisit ==
  \E vis \in {Visit(variant)} :
    VCall("Visit", [v |-> variant, ev |-> vis.ev], NoArg, kEmptyIndex, variant)

\* IfAnyOf<ValidTypes...>::Call with every list of element types
DoIfAnyOf ==
  \E ValidTypes \in SUBSET Alternatives :
    \E c \in {IfAnyOfCall(variant, ValidTypes)} :
      VCallRet("IfAnyOf", [v |-> variant, ev |-> c.ev], NoArg, kEmptyIndex, variant,
               ValidTypes, c.ret)

VariantInit ==
  /\ variant = DefaultCtor.v
  /\ vLast = [op |-> "none", pre |-> DefaultCtor.v, ev |-> <<>>,
              a |-> NoArg, ti |-> kEmptyIndex, src |-> DefaultCtor.v,
              valid |-> {}, ret |-> FALSE]

VariantNext ==
  \/ NewDefault
  \/ NewFromValue
  \/ NewFromVariant
  \/ DoAssignValue
  \/ DoAssignEmpty
  \/ DoAssignVariant
  \/ DoBecome
  \/ DoVisit
  \/ DoIfAnyOf

(***************************************************************************)
(* LogicalBuffer<ValueType[Length], SizeType> and its two Encoding         *)
(* specialisations (nop/base/logical_buffer.h).  A buffer is a record      *)
(* [kind, data, size]: kind names ValueType, data is the array of Length   *)
(* elements and size the count.  ValueType is std::uint8_t ("u8"),         *)
(* std::uint16_t ("u16") or std::string ("str"); the first two take the    *)
(* integral specialisation and the third the other one.                    *)
(***************************************************************************)
Kinds == {"u8", "u16", "str"}

IsIntegral(kind) == kind # "str"

\* sizeof(ValueType) of an integral ValueType
SizeOf(kind) == IF kind = "u8" THEN 1 ELSE 2

\* the values of ValueType the model uses
Elements(kind) ==
  IF kind = "u8" THEN {0, 7}
  ELSE IF kind = "u16" THEN {0, 258}
  ELSE {<<>>, <<120>>, <<120, 120>>}

\* the buffers with elements of ValueType kind and a count up to n
Buffers(kind, n) == [kind : {kind}, data : [1 .. Length -> Elements(kind)], size : 0 .. n]

\* the first size elements: begin() .. end()
Elems(v) == SubSeq(v.data, 1, v.size)

(***************************************************************************)
(* Writer and Reader over a byte stream.  A writer w = [bytes, room] has   *)
(* written bytes and accepts room more; a write that does not fit fails    *)
(* with IoError after writing what fits.  A reader r = [bytes, pos] has    *)
(* consumed pos bytes; a read past the end fails with IoError and          *)
(* consumes nothing.                                                       *)
(***************************************************************************)
StreamWrite(w, bs) ==
  IF Len(bs) <= w.room
    THEN [st |-> "Ok", w |-> [bytes |-> w.bytes \o bs, room |-> w.room - Len(bs)]]
    ELSE [st |-> "IoError",
          w |-> [bytes |-> w.bytes \o SubSeq(bs, 1, w.room), room |-> 0]]

StreamRead(r, n) ==
  IF r.pos + n <= Len(r.bytes)
    THEN [st |-> "Ok", r |-> [r EXCEPT !.pos = @ + n],
          bs |-> SubSeq(r.bytes, r.pos + 1, r.pos + n)]
    ELSE [st |-> "IoError", r |-> r, bs |-> <<>>]

(***************************************************************************)
(* EncodingByte values and Encoding<std::uint64_t>: a value up to 127 is   *)
(* the single byte of that value, a larger one is the prefix of the        *)
(* smallest size class that holds it followed by its bytes, low byte       *)
(* first.                                                                  *)
(***************************************************************************)
PositiveFixIntMax == 127
U8Prefix == 128
U16Prefix == 129
ArrayPrefix == 186
BinaryPrefix == 188
StringPrefix == 189

U64Encode(n) ==
  IF n <= PositiveFixIntMax THEN <<n>>
  ELSE IF n <= 255 THEN <<U8Prefix, n>>
  ELSE <<U16Prefix, n % 256, n \div 256>>

U64Size(n) ==
  IF n <= PositiveFixIntMax THEN 1 ELSE IF n <= 255 THEN 2 ELSE 3

U64Write(n, w) == StreamWrite(w, U64Encode(n))

U64Read(r) ==
  LET p == StreamRead(r, 1) IN
  IF p.st # "Ok" THEN [st |-> p.st, r |-> p.r, n |-> 0]
  ELSE IF p.bs[1] <= PositiveFixIntMax THEN [st |-> "Ok", r |-> p.r, n |-> p.bs[1]]
  ELSE IF p.bs[1] \in {U8Prefix, U16Prefix} THEN
    LET q == StreamRead(p.r, IF p.bs[1] = U8Prefix THEN 1 ELSE 2) IN
    IF q.st # "Ok" THEN [st |-> q.st, r |-> q.r, n |-> 0]
    ELSE [st |-> "Ok", r |-> q.r,
          n |-> IF p.bs[1] = U8Prefix THEN q.bs[1] ELSE q.bs[1] + 256 * q.bs[2]]
  ELSE [st |-> "UnexpectedEncodingType", r |-> p.r, n |-> 0]

(***************************************************************************)
(* Encoding<std::string>, the element codec of the non-integral buffer:    *)
(* String prefix, byte length, bytes.                                      *)
(***************************************************************************)
ElemEncode(e) == <<StringPrefix>> \o U64Encode(Len(e)) \o e

ElemSize(e) == 1 + U64Size(Len(e)) + Len(e)

ElemWrite(e, w) == StreamWrite(w, ElemEncode(e))

\* a failed read leaves the element as it was
ElemRead(r) ==
  LET p == StreamRead(r, 1) IN
  IF p.st # "Ok" THEN [st |-> p.st, r |-> p.r, e |-> <<>>]
  ELSE IF p.bs[1] # StringPrefix THEN [st |-> "UnexpectedEncodingType", r |-> p.r, e |-> <<>>]
  ELSE LET h == U64Read(p.r) IN
    IF h.st # "Ok" THEN [st |-> h.st, r |-> h.r, e |-> <<>>]
    ELSE LET b == StreamRead(h.r, h.n) IN [st |-> b.st, r |-> b.r, e |-> b.bs]

(***************************************************************************)
(* The bytes of integral elements in memory, low byte first, as            *)
(* writer->Write(begin, end) emits and reader->Read(begin, end) fills      *)
(* them.                                                                   *)
(***************************************************************************)
RECURSIVE Pow256(_)
Pow256(k) == IF k = 0 THEN 1 ELSE 256 * Pow256(k - 1)

RawBytes(s, es) ==
  [j \in 1 .. Len(s) * es |-> (s[(j - 1) \div es + 1] \div Pow256((j - 1) % es)) % 256]

RECURSIVE FromRaw(_)
FromRaw(bs) == IF bs = <<>> THEN 0 ELSE Head(bs) + 256 * FromRaw(Tail(bs))

\* the element i (from 1) of the elements stored in bs
RawElement(bs, es, i) == FromRaw(SubSeq(bs, (i - 1) * es + 1, i * es))

RECURSIVE Concat(_)
Concat(ss) == IF ss = <<>> THEN <<>> ELSE Head(ss) \o Concat(Tail(ss))

(***************************************************************************)
(* Encoding<LogicalBuffer<ValueType[Length], SizeType>> for a ValueType    *)
(* that is not integral.  WritePayload and ReadPayload give the outcome    *)
(* [st, w or (v, r), trace]; trace lists the element writes or reads made, *)
(* in order, each with the index of the element and its status.            *)
(***************************************************************************)
\* unsigned int, the type of the accumulator std::accumulate is given in
\* Size (its initial value is 0U), holds 0 .. UIntMax
UIntMod == UIntMax + 1

ArrPrefix(v) == ArrayPrefix

\* std::accumulate(begin, end, 0U, sum + Encoding<ValueType>::Size(element))
RECURSIVE Accumulate(_, _)
Accumulate(s, init) ==
  IF s = <<>> THEN init ELSE Accumulate(Tail(s), (init + ElemSize(Head(s))) % UIntMod)

ArrSize(v) == 1 + U64Size(v.size) + Accumulate(Elems(v), 0)

ArrMatch(prefix) == prefix = ArrayPrefix

RECURSIVE ArrWriteLoop(_, _, _, _)
ArrWriteLoop(v, i, w, trace) ==
  IF i >= v.size THEN [st |-> "Ok", w |-> w, trace |-> trace]
  ELSE LET o == ElemWrite(v.data[i + 1], w)
           t == Append(trace, [i |-> i, st |-> o.st]) IN
       IF o.st # "Ok" THEN [st |-> o.st, w |-> o.w, trace |-> t]
       ELSE ArrWriteLoop(v, i + 1, o.w, t)

\* WritePayload that writes the length field before it tests the count
ArrWritePayload_LengthFirst(v, w) ==
  LET h == U64Write(v.size, w) IN
  IF h.st # "Ok" THEN [st |-> h.st, w |-> h.w, trace |-> <<>>]
  ELSE IF v.size > Length THEN [st |-> "InvalidContainerLength", w |-> h.w, trace |-> <<>>]
  ELSE ArrWriteLoop(v, 0, h.w, <<>>)

ArrWritePayload(v, w) ==
  IF v.size > Length THEN [st |-> "InvalidContainerLength", w |-> w, trace |-> <<>>]
  ELSE LET h == U64Write(v.size, w) IN
       IF h.st # "Ok" THEN [st |-> h.st, w |-> h.w, trace |-> <<>>]
       ELSE ArrWriteLoop(v, 0, h.w, <<>>)

RECURSIVE ArrReadLoop_Continues(_, _, _, _, _)
RECURSIVE ArrReadLoop(_, _, _, _, _)
\* a read loop that goes on to the next element after a failed read
ArrReadLoop_Continues(value, i, size, r, trace) ==
  IF i >= size
    THEN [st |-> IF trace = <<>> THEN "Ok" ELSE trace[Len(trace)].st,
          v |-> value, r |-> r, trace |-> trace]
  ELSE LET o == ElemRead(r)
           t == Append(trace, [i |-> i, st |-> o.st]) IN
       ArrReadLoop_Continues(IF o.st = "Ok" THEN [value EXCEPT !.data[i + 1] = o.e] ELSE value,
                             i + 1, size, o.r, t)

ArrReadLoop(value, i, size, r, trace) ==
  IF i >= size THEN [st |-> "Ok", v |-> value, r |-> r, trace |-> trace]
  ELSE LET o == ElemRead(r)
           t == Append(trace, [i |-> i, st |-> o.st]) IN
       IF o.st # "Ok" THEN [st |-> o.st, v |-> value, r |-> o.r, trace |-> t]
       ELSE ArrReadLoop([value EXCEPT !.data[i + 1] = o.e], i + 1, size, o.r, t)

\* ReadPayload that leaves the count as it was
ArrReadPayload_KeepsCount(value, r) ==
  LET h == U64Read(r) IN
  IF h.st # "Ok" THEN [st |-> h.st, v |-> value, r |-> h.r, trace |-> <<>>]
  ELSE IF h.n > Length
    THEN [st |-> "InvalidContainerLength", v |-> value, r |-> h.r, trace |-> <<>>]
  ELSE ArrReadLoop(value, 0, h.n, h.r, <<>>)

ArrReadPayload(value, r) ==
  LET h == U64Read(r) IN
  IF h.st # "Ok" THEN [st |-> h.st, v |-> value, r |-> h.r, trace |-> <<>>]
  ELSE IF h.n > Length
    THEN [st |-> "InvalidContainerLength", v |-> value, r |-> h.r, trace |-> <<>>]
  ELSE LET l == ArrReadLoop(value, 0, h.n, h.r, <<>>) IN
       IF l.st # "Ok" THEN l ELSE [l EXCEPT !.v.size = h.n]

(***************************************************************************)
(* Encoding<LogicalBuffer<ValueType[Length], SizeType>> for an integral    *)
(* ValueType of es bytes.                                                  *)
(***************************************************************************)
BinPrefix(v) == BinaryPrefix

BinSize(v, es) == LET size == v.size * es IN 1 + U64Size(size) + size

BinMatch(prefix) == prefix = BinaryPrefix

\* WritePayload that writes the element count as the length field
BinWritePayload_ElementCount(v, es, w) ==
  IF v.size > Length THEN [st |-> "InvalidContainerLength", w |-> w, trace |-> <<>>]
  ELSE LET h == U64Write(v.size, w) IN
       IF h.st # "Ok" THEN [st |-> h.st, w |-> h.w, trace |-> <<>>]
       ELSE LET o == StreamWrite(h.w, RawBytes(Elems(v), es)) IN
            [st |-> o.st, w |-> o.w, trace |-> <<>>]

BinWritePayload(v, es, w) ==
  IF v.size > Length THEN [st |-> "InvalidContainerLength", w |-> w, trace |-> <<>>]
  ELSE LET h == U64Write(v.size * es, w) IN
       IF h.st # "Ok" THEN [st |-> h.st, w |-> h.w, trace |-> <<>>]
       ELSE LET o == StreamWrite(h.w, RawBytes(Elems(v), es)) IN
            [st |-> o.st, w |-> o.w, trace |-> <<>>]

\* ReadPayload that accepts a byte length that is not a multiple of
\* sizeof(ValueType)
BinReadPayload_NoMultipleTest(value, es, r) ==
  LET h == U64Read(r) IN
  IF h.st # "Ok" THEN [st |-> h.st, v |-> value, r |-> h.r, trace |-> <<>>]
  ELSE IF h.n > Length * es
    THEN [st |-> "InvalidContainerLength", v |-> value, r |-> h.r, trace |-> <<>>]
  ELSE LET size == h.n \div es
           sized == [value EXCEPT !.size = size]
           o == StreamRead(h.r, size * es) IN
       IF o.st # "Ok" THEN [st |-> o.st, v |-> sized, r |-> o.r, trace |-> <<>>]
       ELSE [st |-> "Ok", r |-> o.r, trace |-> <<>>,
             v |-> [sized EXCEPT !.data =
                      [k \in 1 .. Length |->
                         IF k <= size THEN RawElement(o.bs, es, k) ELSE value.data[k]]]]

\* value->size() is assigned before the elements are read; a failed
\* reader->Read leaves the elements as they were
BinReadPayload(value, es, r) ==
  LET h == U64Read(r) IN
  IF h.st # "Ok" THEN [st |-> h.st, v |-> value, r |-> h.r, trace |-> <<>>]
  ELSE IF h.n > Length * es \/ h.n % es # 0
    THEN [st |-> "InvalidContainerLength", v |-> value, r |-> h.r, trace |-> <<>>]
  ELSE LET size == h.n \div es
           sized == [value EXCEPT !.size = size]
           o == StreamRead(h.r, size * es) IN
       IF o.st # "Ok" THEN [st |-> o.st, v |-> sized, r |-> o.r, trace |-> <<>>]
       ELSE [st |-> "Ok", r |-> o.r, trace |-> <<>>,
             v |-> [sized EXCEPT !.data =
                      [k \in 1 .. Length |->
                         IF k <= size THEN RawElement(o.bs, es, k) ELSE value.data[k]]]]

(***************************************************************************)
(* Encoding<T>::Size, Write and Read of a buffer: Write emits the prefix   *)
(* and calls WritePayload; Read reads the prefix, fails with               *)
(* UnexpectedEncodingType when Match refuses it, and calls ReadPayload.    *)
(***************************************************************************)
LbSize(v) == IF IsIntegral(v.kind) THEN BinSize(v, SizeOf(v.kind)) ELSE ArrSize(v)

LbWritePayload(v, w) ==
  IF IsIntegral(v.kind) THEN BinWritePayload(v, SizeOf(v.kind), w) ELSE ArrWritePayload(v, w)

LbReadPayload(value, r) ==
  IF IsIntegral(value.kind) THEN BinReadPayload(value, SizeOf(value.kind), r)
  ELSE ArrReadPayload(value, r)

LbWrite(v, w) ==
  LET p == StreamWrite(w, <<IF IsIntegral(v.kind) THEN BinPrefix(v) ELSE ArrPrefix(v)>>) IN
  IF p.st # "Ok" THEN [st |-> p.st, w |-> p.w, trace |-> <<>>]
  ELSE LbWritePayload(v, p.w)

LbRead(value, r) ==
  LET p == StreamRead(r, 1) IN
  IF p.st # "Ok" THEN [st |-> p.st, v |-> value, r |-> p.r, trace |-> <<>>]
  ELSE IF ~(IF IsIntegral(value.kind) THEN BinMatch(p.bs[1]) ELSE ArrMatch(p.bs[1]))
    THEN [st |-> "UnexpectedEncodingType", v |-> value, r |-> p.r, trace |-> <<>>]
  ELSE LbReadPayload(value, p.r)

(***************************************************************************)
(* The LogicalBuffer run: a buffer is written to a fresh writer, or a peer *)
(* produces a stream, and the stream is then read into the target buffer.  *)
(***************************************************************************)
\* the longest encoding of a buffer within capacity
MaxEncoded == 2 + Length * 4

NoBuffers == [kind |-> "u8", data |-> <<>>, size |-> 0]

NoStream == [bytes |-> <<>>, pos |-> 0, by |-> "none", wst |-> "Ok", src |-> NoBuffers]

LbCall(op, st, trace, size, target, s) ==
  /\ lbuf' = target
  /\ stream' = s
  /\ lbLast' = [op |-> op, st |-> st, trace |-> trace, size |-> size, pre |-> lbuf]
  /\ UNCHANGED <<br, reader, brLast, innerFailed, variant, vLast,
                 service, client, pipes, rpcLog>>

\* Size(v) and Write(v, writer) of a buffer of the target's type whose
\* count is up to Length + 1, on a writer that accepts room bytes; Size is
\* asked of buffers within capacity
DoLbWrite ==
  /\ stream.by = "none"
  /\ \E v \in Buffers(lbuf.kind, Length + 1), room \in 0 .. MaxEncoded :
       \E o \in {LbWrite(v, [bytes |-> <<>>, room |-> room])} :
         LbCall("Write", o.st, o.trace, IF v.size <= Length THEN LbSize(v) ELSE 0, lbuf,
                [bytes |-> o.w.bytes, pos |-> 0, by |-> "write", wst |-> o.st, src |-> v])

\* the streams a peer sends: a Binary or Array prefix, a declared length
\* and the encodings of the elements of a sequence s
PeerEncode(kind, declared, s) ==
  <<IF IsIntegral(kind) THEN BinaryPrefix ELSE ArrayPrefix>> \o U64Encode(declared)
    \o (IF IsIntegral(kind) THEN RawBytes(s, SizeOf(kind))
        ELSE Concat([i \in 1 .. Len(s) |-> ElemEncode(s[i])]))

\* the encoding of a dynamic sequence (std::vector<ValueType>) s
VectorEncode(kind, s) ==
  PeerEncode(kind, IF IsIntegral(kind) THEN Len(s) * SizeOf(kind) ELSE Len(s), s)

PeerSeqs(kind) == UNION {[1 .. n -> Elements(kind)] : n \in 0 .. Length + 1}

DeclaredLengths == (0 .. 2 * (Length + 1)) \cup {BigLength}

DoLbPeer ==
  /\ stream.by = "none"
  /\ \E kind \in Kinds, declared \in DeclaredLengths :
       \E s \in PeerSeqs(kind) :
         LbCall("Peer", "Ok", <<>>, 0, lbuf,
                [bytes |-> PeerEncode(kind, declared, s), pos |-> 0, by |-> "peer",
                 wst |-> "Ok", src |-> [kind |-> kind, data |-> s, size |-> declared]])

\* Read(&lbuf, reader) on a reader at the start of the stream
DoLbRead ==
  /\ stream.by # "none"
  /\ lbLast.op # "Read"
  /\ \E o \in {LbRead(lbuf, [bytes |-> stream.bytes, pos |-> 0])} :
       LbCall("Read", o.st, o.trace, 0, o.v, [stream EXCEPT !.pos = o.r.pos])

\* the target buffer before the run: every element the same value, the
\* count 0 or Length
LbInit ==
  /\ \E kind \in Kinds :
       \E e \in Elements(kind), n \in {0, Length} :
         lbuf = [kind |-> kind, data |-> [i \in 1 .. Length |-> e], size |-> n]
  /\ stream = NoStream
  /\ lbLast = [op |-> "none", st |-> "Ok", trace |-> <<>>, size |-> 0, pre |-> NoBuffers]

LbNext ==
  \/ DoLbWrite
  \/ DoLbPeer
  \/ DoLbRead

\* a buffer that is never written or read
LbIdle ==
  /\ lbuf = NoBuffers
  /\ stream = NoStream
  /\ lbLast = [op |-> "none", st |-> "Ok", trace |-> <<>>, size |-> 0, pre |-> NoBuffers]


(***************************************************************************)
(* The customer example (examples/interface.cpp): one CustomerClient and   *)
(* one CustomerService joined by two pipes.  A Customer is a record        *)
(* [name, phone]: name stands for the four fields operator== compares      *)
(* (last, first and middle name, address) and phone for phone_numbers_.    *)
(***************************************************************************)
Names == 1 .. NumNames
Phones == {0, 1}
Customers == [name : Names, phone : Phones]
\* Customer(): every field empty
NoCustomer == [name |-> 0, phone |-> 0]
\* the customer ids a request names
CustomerIds == 0 .. MaxRequests

\* Customer::operator==
Equal(a, b) == a.name = b.name

\* Result<T> / CustomerError values, as a handler returns them
Value(id, c) == [ok |-> TRUE, err |-> "None", id |-> id, c |-> c]
Error(e) == [ok |-> FALSE, err |-> e, id |-> 0, c |-> NoCustomer]

MapPut(f, k, x) == [i \in DOMAIN f \cup {k} |-> IF i = k THEN x ELSE f[i]]
MapErase(f, k) == [i \in DOMAIN f \ {k} |-> f[i]]

\* OnAdd that stores the customer under the incremented counter
OnAdd_StoresAtNext(s, customer) ==
  IF \E id \in DOMAIN s.customers_ : Equal(s.customers_[id], customer)
    THEN [s |-> s, ret |-> Error("CustomerExists")]
    ELSE LET customer_id == s.customer_id_counter_ IN
         [s |-> [s EXCEPT !.customer_id_counter_ = @ + 1,
                          !.customers_ = MapPut(@, customer_id + 1, customer)],
          ret |-> Value(customer_id, NoCustomer)]

\* OnAdd that takes the id before it looks for an equal customer
OnAdd_CountsFirst(s, customer) ==
  LET customer_id == s.customer_id_counter_
      t == [s EXCEPT !.customer_id_counter_ = @ + 1] IN
  IF \E id \in DOMAIN s.customers_ : Equal(s.customers_[id], customer)
    THEN [s |-> t, ret |-> Error("CustomerExists")]
    ELSE [s |-> [t EXCEPT !.customers_ = MapPut(@, customer_id, customer)],
          ret |-> Value(customer_id, NoCustomer)]

\* OnAdd that gives out the least id that is not in the store
OnAdd_ReusesFreeId(s, customer) ==
  IF \E id \in DOMAIN s.customers_ : Equal(s.customers_[id], customer)
    THEN [s |-> s, ret |-> Error("CustomerExists")]
    ELSE LET customer_id == CHOOSE id \in 0 .. s.customer_id_counter_ :
                              /\ id \notin DOMAIN s.customers_
                              /\ \A k \in 0 .. id - 1 : k \in DOMAIN s.customers_ IN
         [s |-> [s EXCEPT !.customer_id_counter_ = @ + 1,
                          !.customers_ = MapPut(@, customer_id, customer)],
          ret |-> Value(customer_id, NoCustomer)]

OnAdd(s, customer) ==
  IF \E id \in DOMAIN s.customers_ : Equal(s.customers_[id], customer)
    THEN [s |-> s, ret |-> Error("CustomerExists")]
    ELSE LET customer_id == s.customer_id_counter_ IN
         [s |-> [s EXCEPT !.customer_id_counter_ = @ + 1,
                          !.customers_ = MapPut(@, customer_id, customer)],
          ret |-> Value(customer_id, NoCustomer)]

OnRemove(s, customer_id) ==
  IF customer_id \notin DOMAIN s.customers_
    THEN [s |-> s, ret |-> Error("InvalidCustomerId")]
    ELSE [s |-> [s EXCEPT !.customers_ = MapErase(@, customer_id)],
          ret |-> Value(0, NoCustomer)]

OnUpdate(s, customer_id, customer) ==
  IF customer_id \notin DOMAIN s.customers_
    THEN [s |-> s, ret |-> Error("InvalidCustomerId")]
    ELSE [s |-> [s EXCEPT !.customers_ = MapPut(@, customer_id, customer)],
          ret |-> Value(0, NoCustomer)]

OnGet(s, customer_id) ==
  IF customer_id \notin DOMAIN s.customers_
    THEN [s |-> s, ret |-> Error("InvalidCustomerId")]
    ELSE [s |-> s, ret |-> Value(0, s.customers_[customer_id])]

(***************************************************************************)
(* The method transport.  A request on the wire is the method and its      *)
(* serialized arguments, a response the serialized return value; a         *)
(* Customer is serialized as its members in order.  The field n of a       *)
(* message is not on the wire: it numbers the requests in the order the    *)
(* client sent them, and a response carries the number of the request it   *)
(* was computed from.                                                      *)
(***************************************************************************)
CustomerEncode(c) == <<c.name, c.phone>>
CustomerDecode(bs) == [name |-> bs[1], phone |-> bs[2]]

Request(m, id, c) == [m |-> m, id |-> id, c |-> c]
NoRequest == Request("none", 0, NoCustomer)

RequestEncode(req, n) == [m |-> req.m, id |-> req.id, c |-> CustomerEncode(req.c), n |-> n]

ResponseEncode(ret, n) ==
  [ok |-> ret.ok, err |-> ret.err, id |-> ret.id, c |-> CustomerEncode(ret.c), n |-> n]

ResponseDecode(msg) ==
  [ok |-> msg.ok, err |-> msg.err, id |-> msg.id, c |-> CustomerDecode(msg.c)]

\* the dispatcher bound in CustomerService(): the handler of the method,
\* called with the deserialized arguments
Dispatch(s, msg) ==
  IF msg.m = "Add" THEN OnAdd(s, CustomerDecode(msg.c))
  ELSE IF msg.m = "Remove" THEN OnRemove(s, msg.id)
  ELSE IF msg.m = "Update" THEN OnUpdate(s, msg.id, CustomerDecode(msg.c))
  ELSE OnGet(s, msg.id)

\* a client method that returns without reading the response
ClientInvoke_NoWait(cl, p, req) ==
  [cl |-> [cl EXCEPT !.req = req, !.sent = @ + 1],
   p |-> [p EXCEPT !.c2s = Append(@, RequestEncode(req, cl.sent + 1))]]

\* CustomerClient::Add / Get up to the point where Invoke has written the
\* request and waits for the response
ClientInvoke(cl, p, req) ==
  [cl |-> [cl EXCEPT !.pc = "waiting", !.req = req, !.sent = @ + 1],
   p |-> [p EXCEPT !.c2s = Append(@, RequestEncode(req, cl.sent + 1))]]

\* the rest of CustomerClient::Add / Get: IoError when Invoke failed, else
\* the value it returned
ClientResult(status) == IF ~status.ok THEN Error("IoError") ELSE status.val

RpcUnchanged == UNCHANGED <<br, reader, brLast, innerFailed, variant, vLast, lbuf, stream, lbLast>>

\* the client's thread is between two calls, and main() has not returned
ClientReady ==
  /\ client.pc = "idle"
  /\ client.sent < MaxRequests
  /\ ~service.quit_

ClientCall(req) ==
  /\ \E o \in {ClientInvoke(client, pipes, req)} :
       /\ client' = o.cl
       /\ pipes' = o.p
  /\ UNCHANGED <<service, rpcLog>>
  /\ RpcUnchanged

DoClientAdd ==
  /\ ClientReady
  /\ \E c \in Customers : ClientCall(Request("Add", 0, c))

DoClientRemove ==
  /\ ClientReady
  /\ \E id \in CustomerIds : ClientCall(Request("Remove", id, NoCustomer))

DoClientUpdate ==
  /\ ClientReady
  /\ \E id \in CustomerIds, c \in Customers : ClientCall(Request("Update", id, c))

DoClientGet ==
  /\ ClientReady
  /\ \E id \in CustomerIds : ClientCall(Request("Get", id, NoCustomer))

\* Invoke reads the response and the client method returns
DoClientReturn ==
  /\ pipes.s2c # <<>>
  /\ LET msg == Head(pipes.s2c) IN
       /\ client' = [client EXCEPT !.pc = "idle", !.got = @ + 1, !.n = msg.n,
                       !.resp = ClientResult([ok |-> TRUE, val |-> ResponseDecode(msg)])]
       /\ pipes' = [pipes EXCEPT !.s2c = Tail(@)]
  /\ UNCHANGED <<service, rpcLog>>
  /\ RpcUnchanged

\* what a read of quit_ by the service thread can give: the value of the
\* member while the CustomerService lives, any value once its lifetime has
\* ended
QuitRead(s) == IF s.destroyed THEN BOOLEAN ELSE {s.quit_}

\* an access of the service thread to the CustomerService, noted as late
\* when the destructor has run
Access(log) == [log EXCEPT !.late = @ \/ service.destroyed]

\* HandleMessages: the test of the loop
DoServiceLoop ==
  /\ service.pc = "loop"
  /\ \E q \in QuitRead(service) :
       service' = [service EXCEPT !.pc = IF q THEN "done" ELSE "callback"]
  /\ rpcLog' = Access(rpcLog)
  /\ UNCHANGED <<client, pipes>>
  /\ RpcUnchanged

\* HandleMessages: callback_(&receiver, this) reads one request, calls its
\* handler and writes the response
DoServiceHandle ==
  /\ service.pc = "callback"
  /\ pipes.c2s # <<>>
  /\ LET msg == Head(pipes.c2s)
         o == Dispatch(service, msg) IN
       /\ service' = [o.s EXCEPT !.pc = "loop"]
       /\ pipes' = [pipes EXCEPT !.c2s = Tail(@),
                                 !.s2c = Append(@, ResponseEncode(o.ret, msg.n))]
       /\ rpcLog' = [order |-> Append(rpcLog.order, msg.n),
                     ret |-> o.ret,
                     added |-> IF msg.m = "Add" /\ o.ret.ok
                                 THEN MapPut(rpcLog.added, o.ret.id, client.req.c)
                               ELSE IF msg.m \in {"Remove", "Update"}
                                 THEN MapErase(rpcLog.added, msg.id)
                               ELSE rpcLog.added,
                     m |-> msg.m,
                     pre |-> [customers_ |-> service.customers_,
                              customer_id_counter_ |-> service.customer_id_counter_],
                     ids |-> IF msg.m = "Add" /\ o.ret.ok
                               THEN Append(rpcLog.ids, o.ret.id) ELSE rpcLog.ids,
                     late |-> rpcLog.late \/ service.destroyed]
  /\ UNCHANGED client
  /\ RpcUnchanged

\* HandleMessages: callback_(&receiver, this) finds the request pipe closed
\* and empty and fails; the service thread then reads quit_ to decide
\* whether to report the failure
DoServiceHandleClosed ==
  /\ service.pc = "callback"
  /\ pipes.c2s = <<>>
  /\ pipes.closed
  /\ service' = [service EXCEPT !.pc = "loop"]
  /\ rpcLog' = Access(rpcLog)
  /\ UNCHANGED <<client, pipes>>
  /\ RpcUnchanged

\* main() returns: client, constructed last, is destroyed first and its
\* writer closes the request pipe
DoClientDestroy ==
  /\ client.pc = "idle"
  /\ client' = [client EXCEPT !.pc = "destroyed"]
  /\ pipes' = [pipes EXCEPT !.closed = TRUE]
  /\ UNCHANGED <<service, rpcLog>>
  /\ RpcUnchanged

\* Quit(), called by ~CustomerService() on the thread of main() once the
\* client is destroyed
DoQuit ==
  /\ client.pc = "destroyed"
  /\ ~service.quit_
  /\ service' = [service EXCEPT !.quit_ = TRUE]
  /\ UNCHANGED <<client, pipes, rpcLog>>
  /\ RpcUnchanged

\* the rest of ~CustomerService(): the members are destroyed; the service
\* thread is detached and nothing waits for it
DoServiceDestroyed ==
  /\ service.quit_
  /\ ~service.destroyed
  /\ service' = [service EXCEPT !.destroyed = TRUE]
  /\ UNCHANGED <<client, pipes, rpcLog>>
  /\ RpcUnchanged

\* main(): the service and the client are constructed and the service
\* thread is started
RpcInit ==
  /\ service = [customers_ |-> <<>>, customer_id_counter_ |-> 0, quit_ |-> FALSE, pc |-> "loop",
                destroyed |-> FALSE]
  /\ client = [pc |-> "idle", req |-> NoRequest, resp |-> Value(0, NoCustomer),
               sent |-> 0, got |-> 0, n |-> 0]
  /\ pipes = [c2s |-> <<>>, s2c |-> <<>>, closed |-> FALSE]
  /\ rpcLog = [order |-> <<>>, ret |-> Value(0, NoCustomer), added |-> <<>>, m |-> "none",
               pre |-> [customers_ |-> <<>>, customer_id_counter_ |-> 0],
               ids |-> <<>>, late |-> FALSE]

RpcNext ==
  \/ DoClientAdd
  \/ DoClientRemove
  \/ DoClientUpdate
  \/ DoClientGet
  \/ DoClientReturn
  \/ DoServiceLoop
  \/ DoServiceHandle
  \/ DoServiceHandleClosed
  \/ DoClientDestroy
  \/ DoQuit
  \/ DoServiceDestroyed

(***************************************************************************)
(* Specifications.  SpecReader runs the BoundedReader, SpecVariant the     *)
(* Variant, SpecBuffer the LogicalBuffer and SpecRpc the customer example; *)
(* Spec runs them all.                                                     *)
(***************************************************************************)
Init == BrInit /\ VariantInit /\ LbInit /\ RpcInit

Next ==
  \/ BrNext
  \/ VariantNext
  \/ LbNext
  \/ RpcNext

Spec == Init /\ [][Next]_vars

InitReader == BrInit /\ VariantInit /\ LbIdle /\ RpcInit

SpecReader == InitReader /\ [][BrNext]_vars

\* a BoundedReader of capacity 0 over a reader with no bytes, never called
BrIdle ==
  /\ br = [size_ |-> 0, index_ |-> 0]
  /\ reader = [pos |-> 0, len |-> 0]
  /\ brLast = [op |-> "none", n |-> 0, st |-> "Ok", inner |-> FALSE, ist |-> "None",
               preIndex |-> 0, prePos |-> 0, afterNoBuffer |-> FALSE]
  /\ innerFailed = FALSE

InitVariant == BrIdle /\ VariantInit /\ LbIdle /\ RpcInit

SpecVariant == InitVariant /\ [][VariantNext]_vars

InitBuffer == BrIdle /\ VariantInit /\ LbInit /\ RpcInit

SpecBuffer == InitBuffer /\ [][LbNext]_vars

InitRpc == BrIdle /\ VariantInit /\ LbIdle /\ RpcInit

SpecRpc == InitRpc /\ [][RpcNext]_vars

\* the service thread, once started, keeps being scheduled: each of its
\* steps that stays possible is eventually taken
SpecRpcLive ==
  /\ SpecRpc
  /\ WF_vars(DoServiceLoop)
  /\ WF_vars(DoServiceHandle)
  /\ WF_vars(DoServiceHandleClosed)

(***************************************************************************)
(* BoundedReader: properties.                                              *)
(***************************************************************************)
Consuming == {"Read", "ReadRaw", "Skip"}

\* C1: after any sequence of calls, succeeding or failing,
\* 0 <= index <= capacity, where index is size() and capacity is capacity().
C1_IndexWithinCapacity == 0 <= br.index_ /\ br.index_ <= br.size_

\* C1 witness: a call was refused with NoBuffer on a BoundedReader that has
\* consumed its whole, non-zero capacity.
C1_Witness ==
  /\ brLast.op \in Consuming
  /\ brLast.st = "NoBuffer"
  /\ ~brLast.inner
  /\ br.size_ > 0
  /\ br.index_ = br.size_

\* C2: a Read, ReadRaw or Skip that requests more than capacity - index
\* bytes fails with NoBuffer without calling the wrapped reader; the wrapped
\* reader's position and index are unchanged by the call.
C2_OverflowRefused ==
  (brLast.op \in Consuming /\ brLast.n > br.size_ - brLast.preIndex)
    => /\ brLast.st = "NoBuffer"
       /\ ~brLast.inner
       /\ reader.pos = brLast.prePos
       /\ br.index_ = brLast.preIndex

\* C2 witness: a ReadRaw of more bytes than remain in the budget, after
\* some bytes were consumed, on a reader that still holds enough bytes.
C2_Witness ==
  /\ brLast.op = "ReadRaw"
  /\ brLast.preIndex > 0
  /\ brLast.n > br.size_ - brLast.preIndex
  /\ brLast.n <= reader.len - reader.pos
  /\ brLast.st = "NoBuffer"

\* C3: over a wrapped reader that does not fail, a consuming call that fits
\* the remaining budget succeeds and advances the wrapped reader by exactly
\* the requested bytes, a call that does not fit fails with NoBuffer and
\* leaves the wrapped reader where it was, and the bytes consumed through
\* the BoundedReader never exceed capacity.
C3_BudgetEnforced ==
  ~innerFailed =>
    /\ reader.pos <= br.size_
    /\ reader.pos = br.index_
    /\ brLast.op \in Consuming =>
         IF brLast.n <= br.size_ - brLast.preIndex
           THEN /\ brLast.st = "Ok"
                /\ reader.pos = brLast.prePos + brLast.n
                /\ br.index_ = brLast.preIndex + brLast.n
           ELSE /\ brLast.st = "NoBuffer"
                /\ reader.pos = brLast.prePos

\* C3 witness: capacity 4 over a reader holding 8 bytes, 3 bytes consumed,
\* then a 2-byte read refused with the wrapped position still 3.
C3_Witness ==
  /\ ~innerFailed
  /\ br.size_ = 4
  /\ reader.len = 8
  /\ brLast.op = "ReadRaw"
  /\ brLast.n = 2
  /\ brLast.preIndex = 3
  /\ brLast.st = "NoBuffer"
  /\ reader.pos = 3
  /\ br.index_ = 3

\* C4 as stated: after any call to ReadPadding returns, index == capacity.
C4_Original == brLast.op = "ReadPadding" => br.index_ = br.size_

\* C4 amended: ReadPadding asks the wrapped reader to skip exactly
\* capacity - index bytes and never consumes more than that; when the skip
\* succeeds exactly that many bytes are consumed and index == capacity
\* afterwards; when the skip fails index is unchanged.
C4_PaddingToCapacity ==
  brLast.op = "ReadPadding" =>
    /\ brLast.inner
    /\ brLast.n = br.size_ - brLast.preIndex
    /\ reader.pos - brLast.prePos <= br.size_ - brLast.preIndex
    /\ brLast.st = "Ok" =>
         /\ reader.pos = brLast.prePos + (br.size_ - brLast.preIndex)
         /\ br.index_ = br.size_
    /\ brLast.st # "Ok" => br.index_ = brLast.preIndex

\* C4 witness: a successful ReadPadding that started strictly inside the
\* budget, after some bytes were consumed.
C4_Witness ==
  /\ brLast.op = "ReadPadding"
  /\ brLast.st = "Ok"
  /\ brLast.preIndex > 0
  /\ brLast.preIndex < br.size_
  /\ br.index_ = br.size_

\* C18: Ensure(n) never consumes: it leaves index and the wrapped reader's
\* position unchanged whether it succeeds or fails; when n > capacity - index
\* it fails with NoBuffer without calling the wrapped reader, and otherwise
\* it calls the wrapped reader and returns the result of its Ensure(n).
C18_EnsureNeverConsumes ==
  brLast.op = "Ensure"
    => /\ br.index_ = brLast.preIndex
       /\ reader.pos = brLast.prePos
       /\ IF brLast.n > br.size_ - brLast.preIndex
            THEN brLast.st = "NoBuffer" /\ ~brLast.inner
            ELSE /\ brLast.inner
                 /\ brLast.st \in {o.st : o \in ReaderEnsure([reader EXCEPT !.pos = brLast.prePos], brLast.n)}

\* C18 witness: after bytes were consumed, an Ensure of a non-zero count
\* within the remaining budget was passed to the wrapped reader and succeeded.
C18_Witness ==
  /\ brLast.op = "Ensure"
  /\ brLast.n > 0
  /\ brLast.preIndex > 0
  /\ brLast.inner
  /\ brLast.st = "Ok"


\* C23: when the wrapped reader's call fails during Read, ReadRaw, Skip or
\* ReadPadding, the BoundedReader returns the wrapped reader's error
\* unchanged and does not advance index.
C23_InnerErrorPassedOn ==
  (/\ brLast.op \in {"Read", "ReadRaw", "Skip", "ReadPadding"}
   /\ brLast.inner
   /\ brLast.ist # "Ok")
    => /\ brLast.st = brLast.ist
       /\ br.index_ = brLast.preIndex

\* C23 witness: a Skip of 2 bytes within the budget, after bytes were
\* consumed, failed with IoError in the wrapped reader, which had consumed
\* one byte of it.
C23_Witness ==
  /\ brLast.op = "Skip"
  /\ brLast.n = 2
  /\ brLast.preIndex > 0
  /\ brLast.inner
  /\ brLast.ist = "IoError"
  /\ brLast.st = "IoError"
  /\ reader.pos = brLast.prePos + 1
  /\ br.index_ = brLast.preIndex

\* C24: a NoBuffer failure does not poison a BoundedReader: a call refused
\* with NoBuffer leaves index as it was, and after a call has failed with
\* NoBuffer every consuming call that requests at most capacity - index
\* bytes is passed to the wrapped reader and, when the wrapped reader
\* succeeds, succeeds and advances index by the request.
C24_NoBufferDoesNotPoison ==
  /\ (brLast.op \in Consuming /\ brLast.st = "NoBuffer" /\ ~brLast.inner)
       => br.index_ = brLast.preIndex
  /\ (/\ brLast.afterNoBuffer
      /\ brLast.op \in Consuming
      /\ brLast.n <= br.size_ - brLast.preIndex)
       => /\ brLast.inner
          /\ brLast.ist = "Ok" =>
               /\ brLast.st = "Ok"
               /\ br.index_ = brLast.preIndex + brLast.n

\* C24 witness: capacity 4, 3 bytes consumed, an earlier call failed with
\* NoBuffer, and a 1-byte Read succeeded and made index == capacity.
C24_Witness ==
  /\ br.size_ = 4
  /\ brLast.afterNoBuffer
  /\ brLast.op = "Read"
  /\ brLast.preIndex = 3
  /\ brLast.st = "Ok"
  /\ br.index_ = 4
  /\ reader.pos = 4
  /\ ~innerFailed

(***************************************************************************)
(* Variant: properties.                                                    *)
(***************************************************************************)
Dtors(ev) == SelectSeq(ev, LAMBDA e : e.k = "dtor")

\* index() names the alive element of v
WellFormed(v) ==
  v.value_.alive = IF empty(v) THEN {} ELSE {index(v)}

\* C5: in every reachable state index() names the alive element: index() is
\* -1 exactly when no element is alive, otherwise exactly the element
\* numbered index() is alive, and no destructor runs on an element that is
\* not alive.
C5_WellFormed ==
  /\ WellFormed(variant)
  /\ \A k \in 1 .. Len(vLast.ev) : vLast.ev[k].k = "dtor" => vLast.ev[k].live

\* C6: assigning EmptyVariant, or an empty Variant, makes the target empty:
\* empty() is true, index() is -1 and get<T>() is nullptr for every T.
C6_AssignEmptyEmpties ==
  (vLast.op = "AssignEmpty" \/ (vLast.op = "AssignVariant" /\ empty(vLast.src)))
    => /\ empty(variant)
       /\ index(variant) = -1
       /\ \A T \in Alternatives : ~get(variant, T)

C8_BecomeSameIndexNoOp ==
  (vLast.op = "Become" /\ vLast.ti = index(vLast.pre))
    => /\ vLast.ev = <<>>
       /\ variant = vLast.pre

\* C8 witness: Become on the active element with args element i could be
\* constructed from, holding a value other than the element's.
C8_Witness ==
  /\ vLast.op = "Become"
  /\ vLast.ti = index(vLast.pre)
  /\ vLast.ti \in vLast.pre.value_.alive
  /\ vLast.ti \in ConvertibleTo(vLast.a.ty)
  /\ vLast.a.x # vLast.pre.value_.held

\* C9: Become(i, args) with i different from index() destroys the
\* previously active element, if any, exactly once; afterwards index() is i
\* when i is a valid index and construction from args succeeds, and -1 when
\* i is not a valid index or construction fails.
C9_BecomeOtherIndex ==
  (vLast.op = "Become" /\ vLast.ti # index(vLast.pre))
    => /\ Dtors(vLast.ev) =
            IF empty(vLast.pre) THEN <<>>
            ELSE <<Ev("dtor", index(vLast.pre), TRUE)>>
       /\ IF vLast.ti \in Alternatives /\ vLast.ti \in ConvertibleTo(vLast.a.ty)
            THEN index(variant) = vLast.ti
            ELSE index(variant) = -1

\* C10: constructing a Variant from, or assigning to it, a value whose type
\* U is an element type makes exactly that element active, holding that
\* value, also when U converts to an earlier element; when U is no element
\* type the first element U converts to becomes active.
C10_SelectsElement ==
  vLast.op \in {"NewFromValue", "AssignValue"} =>
    IF HasType(vLast.a.ty)
      THEN /\ index(variant) = index_of(vLast.a.ty)
           /\ variant.value_.alive = {index_of(vLast.a.ty)}
           /\ variant.value_.held = vLast.a.x
      ELSE index(variant) = FirstConvertible(vLast.a.ty)


C21_AssignElementValue ==
  (vLast.op = "AssignValue" /\ HasType(vLast.a.ty)) =>
    /\ vLast.ev =
         IF index(vLast.pre) = index_of(vLast.a.ty)
           THEN <<Ev("assign", vLast.a.ty, TRUE)>>
           ELSE (IF empty(vLast.pre) THEN <<>> ELSE <<Ev("dtor", index(vLast.pre), TRUE)>>)
                  \o <<Ev("ctor", vLast.a.ty, FALSE)>>
    /\ index(variant) = index_of(vLast.a.ty)
    /\ variant.value_.alive = {index_of(vLast.a.ty)}
    /\ variant.value_.held = vLast.a.x

\* C26: constructing a Variant from a Variant with the same type list
\* gives a target with the same index() as the source and an equal held
\* value (an empty source gives an empty target), and that is the
\* alternative that assigning the same source to a Variant selects.  The
\* sources taken are those whose index() names their alive element.
C26_CopySameAlternative ==
  (vLast.op = "NewFromVariant" /\ WellFormed(vLast.src)) =>
    /\ index(variant) = index(vLast.src)
    /\ empty(vLast.src) => variant.value_.alive = {}
    /\ ~empty(vLast.src) =>
         /\ variant.value_.alive = {index(vLast.src)}
         /\ variant.value_.held = vLast.src.value_.held
    /\ \A o \in OpAssignVariant(DefaultCtor.v, vLast.src) : index(o.v) = index(variant)

(***************************************************************************)
(* LogicalBuffer: properties.                                              *)
(***************************************************************************)
\* a writer with room for every encoding of the model
Roomy == [bytes |-> <<>>, room |-> MaxEncoded]

\* the last operation read a stream that a successful Write of a buffer
\* within capacity produced
ReadBack ==
  /\ lbLast.op = "Read"
  /\ stream.by = "write"
  /\ stream.wst = "Ok"
  /\ stream.src.size <= Length

\* C12: for every LogicalBuffer with count <= Length, of integral and of
\* non-integral elements, reading what Write produced into a buffer of the
\* same type succeeds and restores the count and the first count elements;
\* the elements at positions >= count are not part of the encoding: the
\* bytes do not depend on them and the read leaves the target's untouched.
C12_RoundTrip ==
  ReadBack =>
    /\ lbLast.st = "Ok"
    /\ stream.pos = Len(stream.bytes)
    /\ lbuf.size = stream.src.size
    /\ \A i \in 1 .. Length :
         lbuf.data[i] = IF i <= stream.src.size THEN stream.src.data[i] ELSE lbLast.pre.data[i]
    /\ \A u \in Buffers(lbuf.kind, Length) :
         (u.size = stream.src.size /\ Elems(u) = Elems(stream.src))
           => LbWrite(u, Roomy).w.bytes = stream.bytes

\* C12 witness: a buffer of strings with count 1 was written and read back
\* into a buffer whose second element differs from the written buffer's.
C12_Witness ==
  /\ ReadBack
  /\ lbuf.kind = "str"
  /\ stream.src.size = 1
  /\ stream.src.data[1] = <<120, 120>>
  /\ lbLast.pre.size = Length
  /\ lbLast.pre.data[2] # stream.src.data[2]
  /\ lbuf.size = 1

\* the last operation was a successful Write of a buffer within capacity
Written ==
  /\ lbLast.op = "Write"
  /\ lbLast.st = "Ok"
  /\ stream.src.size <= Length

\* the bytes of the payload after the length field
PayloadBytes(v) ==
  IF IsIntegral(v.kind) THEN v.size * SizeOf(v.kind)
  ELSE Len(Concat([i \in 1 .. v.size |-> ElemEncode(v.data[i])]))

\* C13: for every LogicalBuffer with count <= Length, Size(v) is the number
\* of bytes Write(v) emits: one prefix byte, the compact size of the length
\* field, and the payload (count * sizeof(element) raw bytes for integral
\* elements, the sum of the elements' encoding sizes otherwise).
C13_SizeLaw ==
  Written =>
    /\ lbLast.size = Len(stream.bytes)
    /\ lbLast.size = 1 + U64Size(IF IsIntegral(stream.src.kind)
                                   THEN stream.src.size * SizeOf(stream.src.kind)
                                   ELSE stream.src.size)
                       + PayloadBytes(stream.src)

\* C14: a LogicalBuffer is written as the same bytes as a dynamic sequence
\* of its first count elements: for integral elements the Binary prefix,
\* the byte length count * sizeof(element) and the elements' raw bytes; for
\* other elements the Array prefix, the element count and each element's
\* encoding in order.
C14_SameAsVector ==
  Written =>
    /\ stream.bytes = VectorEncode(stream.src.kind, Elems(stream.src))
    /\ stream.bytes[1] = IF IsIntegral(stream.src.kind) THEN BinaryPrefix ELSE ArrayPrefix
    /\ U64Read([bytes |-> stream.bytes, pos |-> 1]).n =
         IF IsIntegral(stream.src.kind) THEN stream.src.size * SizeOf(stream.src.kind)
         ELSE stream.src.size

\* C14 witness: a buffer of two std::uint16_t, 258 and 0, was written as
\* Binary, byte length 4, and the four bytes low byte first.
C14_Witness ==
  /\ Written
  /\ stream.src.kind = "u16"
  /\ stream.src.size = 2
  /\ stream.bytes = <<BinaryPrefix, 4, 2, 1, 0, 0>>

\* the last operation read a peer's stream of the target's encoding whose
\* declared length the target cannot hold
BadLength ==
  /\ lbLast.op = "Read"
  /\ stream.by = "peer"
  /\ IsIntegral(stream.src.kind) = IsIntegral(lbuf.kind)
  /\ IF IsIntegral(lbuf.kind)
       THEN \/ stream.src.size > Length * SizeOf(lbuf.kind)
            \/ stream.src.size % SizeOf(lbuf.kind) # 0
       ELSE stream.src.size > Length

\* C15: reading a LogicalBuffer whose declared length exceeds the capacity
\* (count > Length for non-integral elements, byte length > Length *
\* sizeof(element) for integral ones) or, for integral elements, whose byte
\* length is not a multiple of sizeof(element), fails with
\* InvalidContainerLength; no element byte is consumed and the target's
\* count and elements are unchanged.
C15_BadLengthRefused ==
  BadLength =>
    /\ lbLast.st = "InvalidContainerLength"
    /\ stream.pos = 1 + U64Size(stream.src.size)
    /\ lbLast.trace = <<>>
    /\ lbuf = lbLast.pre

\* C15 witness: a buffer of std::uint16_t with count Length was given a
\* stream that declares 3 bytes and holds them.
C15_Witness ==
  /\ BadLength
  /\ lbuf.kind = "u16"
  /\ stream.src.size = 3
  /\ Len(stream.bytes) = 5
  /\ lbLast.pre.size = Length
  /\ lbLast.st = "InvalidContainerLength"

\* C19: writing a LogicalBuffer whose count exceeds Length fails with
\* InvalidContainerLength, and WritePayload writes neither the length field
\* nor any element: the prefix is the only byte written.
C19_OverlongWriteRefused ==
  (lbLast.op = "Write" /\ stream.src.size > Length /\ stream.bytes # <<>>)
    => /\ lbLast.st = "InvalidContainerLength"
       /\ Len(stream.bytes) = 1
       /\ lbLast.trace = <<>>

\* C19 witness: a buffer of strings with count Length + 1 was refused by a
\* writer that had room for the whole encoding.
C19_Witness ==
  /\ lbLast.op = "Write"
  /\ stream.src.kind = "str"
  /\ stream.src.size = Length + 1
  /\ lbLast.st = "InvalidContainerLength"
  /\ Len(stream.bytes) = 1

\* C20: the non-integral codec short-circuits: the elements are written or
\* read in order from index 0, and when writing or reading element k fails
\* WritePayload / ReadPayload returns that element's error kind unchanged
\* and no element with an index above k is written or read.
C20_ShortCircuit ==
  (lbLast.op \in {"Write", "Read"} /\ lbuf.kind = "str") =>
    \A k \in 1 .. Len(lbLast.trace) :
      /\ lbLast.trace[k].i = k - 1
      /\ lbLast.trace[k].st # "Ok"
           => /\ k = Len(lbLast.trace)
              /\ lbLast.st = lbLast.trace[k].st

\* C20 witness: a stream that declares two strings and holds none was
\* read: the read of element 0 failed and element 1 was not read.
C20_Witness ==
  /\ lbLast.op = "Read"
  /\ lbuf.kind = "str"
  /\ stream.by = "peer"
  /\ stream.src.kind = "str"
  /\ stream.src.size = 2
  /\ lbLast.trace = <<[i |-> 0, st |-> "IoError"]>>
  /\ lbLast.st = "IoError"

\* C25: a failed read of a LogicalBuffer (an invalid length, or a reader
\* error while the length or the element data is read) leaves the target's
\* count as it was before the read, for both codecs; the count changes only
\* when the read succeeds.
C25_FailedReadKeepsCount ==
  (lbLast.op = "Read" /\ lbLast.st # "Ok") => lbuf.size = lbLast.pre.size

(***************************************************************************)
(* Customer example: properties.                                           *)
(***************************************************************************)
\* C16: on the one client / service channel the service handles the
\* requests in the order the client sent them and every Invoke returns the
\* response to its own request: the N-th request is answered by the N-th
\* response, and the client never has more than one request in flight.
C16_OneChannelFifo ==
  /\ Len(pipes.c2s) + Len(pipes.s2c) <= 1
  /\ client.sent - client.got <= 1
  /\ client.pc = "idle" => client.got = client.sent
  /\ \A k \in 1 .. Len(rpcLog.order) : rpcLog.order[k] = k
  /\ Len(rpcLog.order) <= client.sent
  /\ client.got > 0 => client.n = client.got

\* C16 witness: the client's third call has returned with the response to
\* the third request.
C16_Witness ==
  /\ client.pc = "idle"
  /\ client.sent = 3
  /\ client.got = 3
  /\ client.n = 3
  /\ rpcLog.order = <<1, 2, 3>>

\* the client's last call has returned
Returned(m) == client.pc = "idle" /\ client.got > 0 /\ client.req.m = m

\* C17: when the handler answers Add(c) with the id i the client observes
\* exactly i; a later Get(i), with no Remove or Update of i in between,
\* returns a customer equal to c.
C17_AddThenGet ==
  /\ (Returned("Add") /\ rpcLog.ret.ok)
       => client.resp.ok /\ client.resp.id = rpcLog.ret.id
  /\ (Returned("Get") /\ client.req.id \in DOMAIN rpcLog.added)
       => client.resp.ok /\ Equal(client.resp.c, rpcLog.added[client.req.id])

\* C17 witness: after two customers were added, Get of the second one's id
\* returned that customer.
C17_Witness ==
  /\ Returned("Get")
  /\ client.req.id = 1
  /\ DOMAIN rpcLog.added = {0, 1}
  /\ rpcLog.added[1] = [name |-> 2, phone |-> 1]
  /\ client.resp.ok
  /\ client.resp.c = [name |-> 2, phone |-> 1]

\* C22: every handler call that returns an error (OnAdd returning
\* CustomerExists, OnRemove, OnUpdate and OnGet returning InvalidCustomerId)
\* leaves the customer store and the id counter as they were before the call.
C22_ErrorLeavesStore ==
  (rpcLog.m # "none" /\ ~rpcLog.ret.ok) =>
    /\ rpcLog.ret.err = IF rpcLog.m = "Add" THEN "CustomerExists" ELSE "InvalidCustomerId"
    /\ service.customers_ = rpcLog.pre.customers_
    /\ service.customer_id_counter_ = rpcLog.pre.customer_id_counter_

\* C22 witness: with two customers stored, an Add of a customer equal to a
\* stored one was refused.
C22_Witness ==
  /\ rpcLog.m = "Add"
  /\ rpcLog.ret.err = "CustomerExists"
  /\ Cardinality(DOMAIN rpcLog.pre.customers_) = 2
  /\ rpcLog.pre.customer_id_counter_ = 2

\* C27: customer ids are never reused: each successful Add returns an id
\* strictly greater than every id an earlier Add returned, the first being
\* 0, also when earlier ids have been removed; a failed Add consumes no id,
\* so the counter is the number of successful Adds.
C27_IdsNeverReused ==
  /\ \A i \in DOMAIN rpcLog.ids : \A j \in DOMAIN rpcLog.ids :
       i < j => rpcLog.ids[i] < rpcLog.ids[j]
  /\ rpcLog.ids # <<>> => rpcLog.ids[1] = 0
  /\ service.customer_id_counter_ = Len(rpcLog.ids)
  /\ (rpcLog.m = "Add" /\ ~rpcLog.ret.ok)
       => service.customer_id_counter_ = rpcLog.pre.customer_id_counter_

\* C27 witness: a second Add succeeded after the id of the first had been
\* removed from the store.
C27_Witness ==
  /\ rpcLog.m = "Add"
  /\ rpcLog.ret.ok
  /\ Len(rpcLog.ids) = 2
  /\ rpcLog.ids[1] \notin DOMAIN service.customers_

\* C28: after any sequence of Add, Remove and Update requests, no two
\* distinct ids in the customer store map to customers that compare equal.
C28_StoredCustomersDistinct ==
  \A i \in DOMAIN service.customers_ : \A j \in DOMAIN service.customers_ :
    i # j => ~Equal(service.customers_[i], service.customers_[j])

\* C29: after Quit() is called on the CustomerService whose HandleMessages
\* loop runs on the service thread, HandleMessages eventually returns, and
\* the service thread performs no access to the CustomerService after its
\* destructor has run.
C29_QuitStopsService ==
  /\ [](~rpcLog.late)
  /\ (service.quit_ ~> service.pc = "done")

=============================================================================
